---- MODULE Spec2Model ----
(***************************************************************************)
(* A model of the unified OpenAI-compatible gateway: the access gate       *)
(* (middleware.rs), the two handlers (handlers.rs) and the model           *)
(* resolution and listing fetches of Config (config.rs), wired as in       *)
(* main.rs.  One slot holds one inbound request; every outbound HTTP call  *)
(* is a send step followed by a completion step whose outcome the          *)
(* environment chooses.                                                    *)
(***************************************************************************)
EXTENDS Integers, Sequences, FiniteSets, TLC

VARIABLES
    config,       \* the Config loaded at startup (main.rs:16)
    wired,        \* whether Config is registered as app data (main.rs:34)
    pc,           \* per slot: where the request's handling stands
    request,      \* per slot: the inbound request
    idx,          \* per slot: index of the provider the resolution loop is at
    mapping,      \* per slot: get_model_mapping's `mapping`
    seen_models,  \* per slot: the loops' `seen_models`
    all_models,   \* per slot: get_all_raw_models' `all_models`
    response,     \* per slot: the response given to the client
    calls,        \* per slot, history: outbound HTTP calls issued for the request
    fetched,      \* per slot, history: what each provider's fetch returned
    wire,         \* per slot, history: what each listing endpoint put on the wire
    upstream,     \* per slot, history: the outcome of the chat/completions POST
    invoked       \* per slot, history: the inner handler the gate passed to

vars == <<config, wired, pc, request, idx, mapping, seen_models, all_models,
          response, calls, fetched, wire, upstream, invoked>>

----------------------------------------------------------------------------
(* Bounds of the model. *)

MaxProviders == 2

----------------------------------------------------------------------------
(* Option and Result values. *)

None == [some |-> FALSE]

Some(x) == [some |-> TRUE, v |-> x]

Ok(x) == [ok |-> TRUE, v |-> x]

Err(e) == [ok |-> FALSE, e |-> e]

Range(s) == {s[i] : i \in DOMAIN s}

\* the lists of at most two members of S
ShortLists(S) == {<<>>} \cup {<<a>> : a \in S} \cup {<<a, b>> : a, b \in S}

----------------------------------------------------------------------------
(* serde_json::Value, as far as the code inspects it. *)

JNull == [t |-> "null"]

JStr(s) == [t |-> "string", s |-> s]

JNum(n) == [t |-> "number", n |-> n]

JArr(a) == [t |-> "array", a |-> a]

JObj(f) == [t |-> "object", o |-> f]

\* Value::get(key): a member of an object, None for anything else
get(j, key) ==
    IF j.t = "object" /\ key \in DOMAIN j.o THEN Some(j.o[key]) ELSE None

\* Value::as_str
as_str(j) == IF j.t = "string" THEN Some(j.s) ELSE None

\* Value::as_array
as_array(j) == IF j.t = "array" THEN Some(j.a) ELSE None

\* a JSON object as written on the wire: its members in written order, a
\* key possibly written more than once
JText(members) == [t |-> "object_text", m |-> members]

Member(k, v) == [k |-> k, v |-> v]

\* the keys of the modelled bodies in the order of serde_json's map
KeyOrder == <<"model", "stream">>

\* serde_json::from_slice: the members of an object are collected into a map,
\* the last occurrence of a key winning; any other document is its value
from_slice(d) ==
    IF d.t = "object_text"
    THEN JObj([k \in {d.m[i].k : i \in DOMAIN d.m} |->
                 d.m[CHOOSE i \in DOMAIN d.m :
                        /\ d.m[i].k = k
                        /\ \A j \in DOMAIN d.m : d.m[j].k = k => j <= i].v])
    ELSE d

\* serde_json::to_vec: an object is written member by member in map order
to_vec(j) ==
    IF j.t = "object"
    THEN LET keys == SelectSeq(KeyOrder, LAMBDA k : k \in DOMAIN j.o)
         IN  JText([i \in DOMAIN keys |-> Member(keys[i], j.o[keys[i]])])
    ELSE j

\* value.get(key).and_then(|x| x.as_str())
get_str(j, key) ==
    LET m == get(j, key) IN IF m.some THEN as_str(m.v) ELSE None

\* value.get(key).and_then(|x| x.as_array())
get_array(j, key) ==
    LET m == get(j, key) IN IF m.some THEN as_array(m.v) ELSE None

----------------------------------------------------------------------------
(* Text: a string is the sequence of its characters. *)

\* a byte that is not visible ASCII
NonAscii == "<ff>"

Bearer == <<"B", "e", "a", "r", "e", "r", " ">>

\* HeaderValue::to_str: Err unless every byte is visible ASCII
to_str(header_value) ==
    IF \A i \in DOMAIN header_value : header_value[i] # NonAscii
    THEN Ok(header_value) ELSE Err("ToStrError")

\* str::starts_with
starts_with(s, prefix) ==
    Len(s) >= Len(prefix) /\ SubSeq(s, 1, Len(prefix)) = prefix

\* &s[n..]
slice_from(s, n) == SubSeq(s, n + 1, Len(s))

RECURSIVE trim_end_matches(_, _)
\* str::trim_end_matches: every trailing occurrence of c removed
trim_end_matches(s, c) ==
    IF Len(s) > 0 /\ s[Len(s)] = c
    THEN trim_end_matches(SubSeq(s, 1, Len(s) - 1), c) ELSE s

----------------------------------------------------------------------------
(* Config and Provider (config.rs:5-24), and the configurations explored. *)

ModelIds == {"m1", "m2"}

\* base_url and api_key of the providers a configuration lists, by position
ProviderPool ==
    << [base_url |-> <<"a", "/">>,      api_key |-> <<>>],
       [base_url |-> <<"b">>,           api_key |-> <<"p", "k">>],
       [base_url |-> <<"c", "/", "/">>, api_key |-> <<>>] >>

Provider(i, models) ==
    [base_url |-> ProviderPool[i].base_url,
     api_key  |-> ProviderPool[i].api_key,
     models   |-> models]

ModelsOptions == {None} \cup {Some(l) : l \in ShortLists(ModelIds)}

ProviderLists ==
    UNION { {[i \in 1..n |-> Provider(i, f[i])] : f \in [1..n -> ModelsOptions]}
            : n \in 0..MaxProviders }

ServerKeys ==
    {None, Some(<<"k">>), Some(<<" ", "k">>), Some(<<>>), Some(<<"k", NonAscii>>)}

Configs(keys, providerLists) ==
    {[server_api_key |-> k, providers |-> ps] : k \in keys, ps \in providerLists}

----------------------------------------------------------------------------
(* What a provider's listing endpoint may put on the wire. *)

TransportError == [kind |-> "error", e |-> "connect"]

HttpResponse(status, body) == [kind |-> "response", status |-> status, body |-> body]

\* a record of provider p's listing; owned_by is the provider-specific part
ModelRecord(p, id) ==
    JObj([id |-> JStr(id), owned_by |-> JStr(p.base_url[1])])

NoStringId == JObj([id |-> JNum(7)])

DataElements(p) == {ModelRecord(p, id) : id \in ModelIds} \cup {NoStringId}

\* body: Some(json) when the bytes parse as JSON, None when they do not
ListingWire(p) ==
    {TransportError,
     HttpResponse(500, None),
     HttpResponse(503, Some(JObj([data |-> JArr(<<ModelRecord(p, "m1")>>)]))),
     HttpResponse(200, None),
     HttpResponse(200, Some(JObj([object |-> JStr("list")]))),
     HttpResponse(200, Some(JObj([data |-> JStr("none")])))}
    \cup {HttpResponse(200, Some(JObj([data |-> JArr(l)]))) :
            l \in ShortLists(DataElements(p))}

\* StatusCode::is_success
is_success(status) == 200 <= status /\ status <= 299

----------------------------------------------------------------------------
(* Config's methods (config.rs:35-207). *)

\* the outbound request of a listing fetch (config.rs:63-71, 151-159)
ListingRequest(provider) ==
    [method |-> "GET",
     url    |-> <<trim_end_matches(provider.base_url, "/"), "/models">>,
     authorization |->
        IF provider.api_key # <<>> THEN Some(Bearer \o provider.api_key) ELSE None,
     body   |-> None]

RECURSIVE ExtractIds(_)
\* config.rs:86-90: the string ids of the data array's elements
ExtractIds(data) ==
    IF data = <<>> THEN <<>>
    ELSE LET model_id == get_str(Head(data), "id")
         IN  (IF model_id.some THEN <<model_id.v>> ELSE <<>>)
             \o ExtractIds(Tail(data))

\* the fetch reading the body whatever the status is
fetch_models_from_provider_lenient(provider, w) ==
    IF provider.models.some THEN Ok(provider.models.v)
    ELSE IF w.kind = "error" THEN Ok(<<>>)
    ELSE IF ~w.body.some THEN Ok(<<>>)
    ELSE LET data == get_array(w.body.v, "data")
         IN  IF data.some THEN Ok(ExtractIds(data.v)) ELSE Ok(<<>>)

\* the fetch surfacing a non-2xx status as an error
fetch_models_from_provider_strict(provider, w) ==
    IF provider.models.some THEN Ok(provider.models.v)
    ELSE IF w.kind = "error" THEN Ok(<<>>)
    ELSE IF ~is_success(w.status) THEN Err("status")
    ELSE IF ~w.body.some THEN Ok(<<>>)
    ELSE LET data == get_array(w.body.v, "data")
         IN  IF data.some THEN Ok(ExtractIds(data.v)) ELSE Ok(<<>>)

\* the fetch dropping a repeated entry of the static list
fetch_models_from_provider_dedup(provider, w) ==
    IF provider.models.some
    THEN Ok(IF Len(provider.models.v) = 2 /\ provider.models.v[1] = provider.models.v[2]
            THEN <<provider.models.v[1]>> ELSE provider.models.v)
    ELSE IF w.kind = "error" THEN Ok(<<>>)
    ELSE IF ~is_success(w.status) THEN Ok(<<>>)
    ELSE IF ~w.body.some THEN Ok(<<>>)
    ELSE LET data == get_array(w.body.v, "data")
         IN  IF data.some THEN Ok(ExtractIds(data.v)) ELSE Ok(<<>>)

\* config.rs:55-106; w is the outcome of request_builder.send() and of
\* response.json(), consulted only when no static list is configured
fetch_models_from_provider(provider, w) ==
    IF provider.models.some THEN Ok(provider.models.v)
    ELSE IF w.kind = "error" THEN Ok(<<>>)
    ELSE IF ~is_success(w.status) THEN Ok(<<>>)
    ELSE IF ~w.body.some THEN Ok(<<>>)
    ELSE LET data == get_array(w.body.v, "data")
         IN  IF data.some THEN Ok(ExtractIds(data.v)) ELSE Ok(<<>>)

\* config.rs:139-144
StaticRecord(model_id) ==
    JObj([id |-> JStr(model_id), object |-> JStr("model"),
          created |-> JNull, owned_by |-> JNull])

\* the raw fetch surfacing a transport failure as an error
fetch_raw_models_from_provider_strict(provider, w) ==
    IF provider.models.some
    THEN Ok([i \in DOMAIN provider.models.v |-> StaticRecord(provider.models.v[i])])
    ELSE IF w.kind = "error" THEN Err(w.e)
    ELSE IF ~is_success(w.status) THEN Ok(<<>>)
    ELSE IF ~w.body.some THEN Ok(<<>>)
    ELSE LET data == get_array(w.body.v, "data")
         IN  IF data.some THEN Ok(data.v) ELSE Ok(<<>>)

\* config.rs:133-192
fetch_raw_models_from_provider(provider, w) ==
    IF provider.models.some
    THEN Ok([i \in DOMAIN provider.models.v |-> StaticRecord(provider.models.v[i])])
    ELSE IF w.kind = "error" THEN Ok(<<>>)
    ELSE IF ~is_success(w.status) THEN Ok(<<>>)
    ELSE IF ~w.body.some THEN Ok(<<>>)
    ELSE LET data == get_array(w.body.v, "data")
         IN  IF data.some THEN Ok(data.v) ELSE Ok(<<>>)

RECURSIVE InsertModelsLastWins(_, _, _)
\* the inner loop without the seen_models test: a later provider overrides
InsertModelsLastWins(st, models, provider) ==
    IF models = <<>> THEN st
    ELSE LET model == Head(models)
             next  == [mapping     |-> [m \in DOMAIN st.mapping \cup {model} |->
                                          IF m = model THEN provider
                                          ELSE st.mapping[m]],
                       seen_models |-> st.seen_models \cup {model}]
         IN  InsertModelsLastWins(next, Tail(models), provider)

RECURSIVE InsertModels(_, _, _)
\* config.rs:42-48: the inner loop of get_model_mapping over one provider's
\* models; st = [mapping, seen_models]
InsertModels(st, models, provider) ==
    IF models = <<>> THEN st
    ELSE LET model == Head(models)
             next  == IF model \notin st.seen_models
                      THEN [mapping     |-> [m \in DOMAIN st.mapping \cup {model} |->
                                               IF m = model THEN provider
                                               ELSE st.mapping[m]],
                            seen_models |-> st.seen_models \cup {model}]
                      ELSE st
         IN  InsertModels(next, Tail(models), provider)

RECURSIVE PushModelsKeepingRepeats(_, _)
\* the inner loop without the seen_models test: a repeated id is listed again
PushModelsKeepingRepeats(st, models) ==
    IF models = <<>> THEN st
    ELSE LET model    == Head(models)
             model_id == get_str(model, "id")
             next     == IF model_id.some
                         THEN [all_models  |-> Append(st.all_models, model),
                               seen_models |-> st.seen_models \cup {model_id.v}]
                         ELSE st
         IN  PushModelsKeepingRepeats(next, Tail(models))

RECURSIVE PushModels(_, _)
\* config.rs:117-125: the inner loop of get_all_raw_models over one
\* provider's records; st = [all_models, seen_models]
PushModels(st, models) ==
    IF models = <<>> THEN st
    ELSE LET model    == Head(models)
             model_id == get_str(model, "id")
             next     == IF model_id.some /\ model_id.v \notin st.seen_models
                         THEN [all_models  |-> Append(st.all_models, model),
                               seen_models |-> st.seen_models \cup {model_id.v}]
                         ELSE st
         IN  PushModels(next, Tail(models))

RECURSIVE MappingLoop(_, _, _)
\* config.rs:36-48: get_model_mapping after the first n providers, W[i]
\* being what provider i's listing exchange put on the wire; an Err of a
\* fetch leaves by `?`
MappingLoop(providers, W, n) ==
    IF n = 0 THEN Ok([mapping |-> <<>>, seen_models |-> {}])
    ELSE LET prev == MappingLoop(providers, W, n - 1)
         IN  IF ~prev.ok THEN prev
             ELSE LET models == fetch_models_from_provider(providers[n], W[n])
                  IN  IF ~models.ok THEN models
                      ELSE Ok(InsertModels(prev.v, models.v, providers[n]))

\* config.rs:35-51
get_model_mapping(cfg, W) ==
    LET st == MappingLoop(cfg.providers, W, Len(cfg.providers))
    IN  IF st.ok THEN Ok(st.v.mapping) ELSE st

RECURSIVE RawLoop(_, _, _)
\* config.rs:111-125: get_all_raw_models after the first n providers
RawLoop(providers, W, n) ==
    IF n = 0 THEN Ok([all_models |-> <<>>, seen_models |-> {}])
    ELSE LET prev == RawLoop(providers, W, n - 1)
         IN  IF ~prev.ok THEN prev
             ELSE LET models == fetch_raw_models_from_provider(providers[n], W[n])
                  IN  IF ~models.ok THEN models
                      ELSE Ok(PushModels(prev.v, models.v))

\* config.rs:110-129
get_all_raw_models(cfg, W) ==
    LET st == RawLoop(cfg.providers, W, Len(cfg.providers))
    IN  IF st.ok THEN Ok(st.v.all_models) ELSE st

\* the comparison made on the trimmed key
validate_api_key_trimmed(cfg, provided_key) ==
    IF cfg.server_api_key.some
    THEN trim_end_matches(provided_key, " ") = cfg.server_api_key.v
    ELSE TRUE

\* config.rs:196-207
validate_api_key(cfg, provided_key) ==
    IF cfg.server_api_key.some
    THEN provided_key = cfg.server_api_key.v
    ELSE TRUE

----------------------------------------------------------------------------
(* The access gate (middleware.rs:49-127). *)

\* the gate rejecting when the Config is out of reach
call_failing_closed(app_data, req) ==
    IF req.path = "/v1/models" THEN "pass"
    ELSE IF ~app_data.some THEN "reject"
    ELSE LET cfg == app_data.v
             auth_header == req.authorization
             api_key_valid ==
                 IF auth_header.some
                 THEN LET auth_str == to_str(auth_header.v)
                      IN  IF auth_str.ok
                          THEN IF starts_with(auth_str.v, Bearer)
                               THEN validate_api_key(cfg, slice_from(auth_str.v, 7))
                               ELSE FALSE
                          ELSE FALSE
                 ELSE FALSE
         IN  IF ~api_key_valid THEN "reject" ELSE "pass"

\* the gate without the exemption of the listing route
call_gating_listing(app_data, req) ==
    IF ~app_data.some THEN "pass"
    ELSE LET auth_header == req.authorization
             api_key_valid ==
                 IF auth_header.some
                 THEN LET auth_str == to_str(auth_header.v)
                      IN  IF auth_str.ok
                          THEN IF starts_with(auth_str.v, Bearer)
                               THEN validate_api_key(app_data.v,
                                                     slice_from(auth_str.v, 7))
                               ELSE FALSE
                          ELSE FALSE
                 ELSE FALSE
         IN  IF ~api_key_valid THEN "reject" ELSE "pass"

\* ApiKeyAuthMiddleware::call: "pass" when self.service.call(req) is
\* reached, "reject" when the 401 is returned
call(app_data, req) ==
    IF req.path = "/v1/models" THEN "pass"
    ELSE IF ~app_data.some THEN "pass"
    ELSE LET cfg == app_data.v
             auth_header == req.authorization
             api_key_valid ==
                 IF auth_header.some
                 THEN LET auth_str == to_str(auth_header.v)
                      IN  IF auth_str.ok
                          THEN IF starts_with(auth_str.v, Bearer)
                               THEN validate_api_key(cfg, slice_from(auth_str.v, 7))
                               ELSE FALSE
                          ELSE FALSE
                 ELSE FALSE
         IN  IF ~api_key_valid THEN "reject" ELSE "pass"

----------------------------------------------------------------------------
(* Responses. *)

TextPlain == "text/plain; charset=utf-8"

ApplicationJson == "application/json"

Response(status, content_type, body) ==
    [status |-> status, content_type |-> content_type, body |-> body]

ErrorJson(message, type) ==
    JObj([error |-> JObj([message |-> JStr(message), type |-> JStr(type)])])

\* middleware.rs:112-117: ErrorUnauthorized over the JSON value, which the
\* framework renders as the value's text
Unauthorized ==
    Response(401, TextPlain,
             [fmt |-> "json", json |-> ErrorJson(<<"Invalid API key">>,
                                                 "authentication_error")])

\* handlers.rs:40: ErrorBadRequest over a string
MissingModelField ==
    Response(400, TextPlain, [fmt |-> "text", text |-> <<"Missing model field">>])

\* handlers.rs:8, 35: the answer of the framework when a handler's
\* web::Data<Config> argument cannot be extracted
AppDataMissing ==
    Response(500, TextPlain,
             [fmt |-> "text",
              text |-> <<"Requested application data is not configured correctly. ",
                         "View/enable debug logs for more details.">>])

\* handlers.rs:48: ErrorNotFound over the formatted string
ModelNotFound(model) ==
    Response(404, TextPlain,
             [fmt |-> "text", text |-> <<"Model '", model, "' not found">>])

\* handlers.rs:44: ErrorInternalServerError over the formatted string
MappingFailed(e) ==
    Response(500, TextPlain,
             [fmt |-> "text", text |-> <<"Failed to get model mapping: ", e>>])

\* handlers.rs:77-82
ForwardFailed(e) ==
    Response(500, ApplicationJson,
             [fmt |-> "json", json |-> ErrorJson(<<"Failed to forward request: ", e>>,
                                                 "internal_error")])

\* handlers.rs:21-26
ListingFailed(e) ==
    Response(500, ApplicationJson,
             [fmt |-> "json", json |-> ErrorJson(<<"Failed to fetch models: ", e>>,
                                                 "internal_error")])

\* handlers.rs:12-17
ListingOk(models) ==
    Response(200, ApplicationJson,
             [fmt |-> "json",
              json |-> JObj([object |-> JStr("list"), data |-> JArr(models)])])

\* the framework's answer to a path no route matches (main.rs:37-38)
NoRoute == Response(404, TextPlain, [fmt |-> "text", text |-> <<>>])

\* the conversion turning every status from 400 on into 500
from_u16_collapsing(status) ==
    IF 100 <= status /\ status <= 399 THEN status ELSE 500

\* handlers.rs:68-69: StatusCode::from_u16(..).unwrap_or(500)
from_u16(status) ==
    IF 100 <= status /\ status <= 999 THEN status ELSE 500

\* handlers.rs:63-74; u is the upstream response, u.body the outcome of
\* response.bytes()
Relay(u) ==
    Response(from_u16(u.status), ApplicationJson,
             [fmt |-> "bytes", bytes |-> IF u.body.ok THEN u.body.v ELSE ""])

\* the POST with the Authorization header attached whatever the api_key is
ForwardRequestAlwaysAuth(provider, json) ==
    [method |-> "POST",
     url    |-> <<trim_end_matches(provider.base_url, "/"), "/chat/completions">>,
     authorization |-> Some(Bearer \o provider.api_key),
     body   |-> Some(to_vec(json))]

\* handlers.rs:51-59: the outbound chat/completions request
ForwardRequest(provider, json) ==
    [method |-> "POST",
     url    |-> <<trim_end_matches(provider.base_url, "/"), "/chat/completions">>,
     authorization |->
        IF provider.api_key # <<>> THEN Some(Bearer \o provider.api_key) ELSE None,
     body   |-> Some(to_vec(json))]

\* what the provider's chat/completions endpoint may put on the wire: a
\* failure before any response, or a status with a body that arrives whole
\* (Ok) or breaks off (Err)
UpstreamWire ==
    {TransportError}
    \cup {HttpResponse(st, Ok(b)) : st \in {200, 401, 429, 500}, b \in {"{\"id\":1}", "busy"}}
    \cup {HttpResponse(st, Err("reset")) : st \in {200, 401, 429, 500}}

----------------------------------------------------------------------------
(* The inbound requests explored. *)

\* the requests that may be in flight together
Slots == {1, 2}

\* the slot used when requests are handled one at a time
OneAtATime == {1}

Key == <<"k">>

FewHeaders == {None, Some(Bearer \o Key)}

ManyHeaders ==
    {None,
     Some(Bearer \o Key),
     Some(Bearer \o <<"x">>),
     Some(Bearer),
     Some(Bearer \o Key \o <<" ">>),
     Some(Bearer \o <<" ">> \o Key),
     Some(<<"b", "e", "a", "r", "e", "r", " ">> \o Key),
     Some(<<"B", "e", "a", "r", "e", "r">> \o Key),
     Some(Key),
     Some(<<>>),
     Some(Bearer \o Key \o <<NonAscii>>),
     Some(<<NonAscii>>)}

ChatBodies ==
    {JText(<<Member("model", JStr(m))>>) : m \in ModelIds}
    \cup {JText(<<>>), JText(<<Member("model", JNum(7))>>),
          JText(<<Member("model", JNull)>>), JArr(<<>>),
          JText(<<Member("stream", JNum(1)), Member("model", JStr("m2")),
                  Member("model", JStr("m1"))>>)}

Requests(headers) ==
    {[path |-> "/v1/chat/completions", authorization |-> h,
      body |-> Some(b), json |-> Some(from_slice(b))] :
        h \in headers, b \in ChatBodies}
    \cup {[path |-> p, authorization |-> h, body |-> None, json |-> None] :
            p \in {"/v1/models", "/v1/embeddings"}, h \in headers}

----------------------------------------------------------------------------
(* The state machine. *)

Idle ==
    [pc |-> "idle", request |-> None, idx |-> 0, mapping |-> <<>>,
     seen_models |-> {}, all_models |-> <<>>, response |-> None,
     calls |-> <<>>, fetched |-> <<>>, wire |-> <<>>, upstream |-> None,
     invoked |-> "none"]

\* main.rs:16-39 up to the wiring: wired says whether the Config is
\* registered as app data of the App the gate and the handlers run in
InitApp(configs, wirings) ==
    /\ config \in configs
    /\ wired \in wirings
    /\ pc = [r \in Slots |-> Idle.pc]
    /\ request = [r \in Slots |-> Idle.request]
    /\ idx = [r \in Slots |-> Idle.idx]
    /\ mapping = [r \in Slots |-> Idle.mapping]
    /\ seen_models = [r \in Slots |-> Idle.seen_models]
    /\ all_models = [r \in Slots |-> Idle.all_models]
    /\ response = [r \in Slots |-> Idle.response]
    /\ calls = [r \in Slots |-> Idle.calls]
    /\ fetched = [r \in Slots |-> Idle.fetched]
    /\ wire = [r \in Slots |-> Idle.wire]
    /\ upstream = [r \in Slots |-> Idle.upstream]
    /\ invoked = [r \in Slots |-> Idle.invoked]

\* main.rs:34: the Config is registered
InitWith(configs) == InitApp(configs, {TRUE})

\* req.app_data::<web::Data<Config>>() (middleware.rs:51) under main's wiring
AppData == IF wired THEN Some(config) ELSE None

\* the provider the resolution loop of slot r is at
CurrentProvider(r) == config.providers[idx[r]]

\* a request arrives
Receive(r, req) ==
    /\ pc[r] = "idle"
    /\ request' = [request EXCEPT ![r] = Some(req)]
    /\ pc' = [pc EXCEPT ![r] = "gate"]
    /\ UNCHANGED <<config, wired, idx, mapping, seen_models, all_models, response,
                   calls, fetched, wire, upstream, invoked>>

\* the gate answering 401 without returning: the inner service still runs
GateWithoutReturn(r) ==
    /\ pc[r] = "gate"
    /\ LET req == request[r].v
           route == IF req.path = "/v1/models" THEN "models_endpoint"
                    ELSE IF req.path = "/v1/chat/completions" THEN "chat_completions"
                    ELSE "default_service"
       IN  /\ response' = [response EXCEPT ![r] =
                              IF call(AppData, req) = "reject" THEN Some(Unauthorized)
                              ELSE IF route = "default_service" THEN Some(NoRoute)
                              ELSE @]
           /\ invoked' = [invoked EXCEPT ![r] = route]
           /\ pc' = [pc EXCEPT ![r] = IF route = "default_service" THEN "done" ELSE route]
    /\ UNCHANGED <<config, wired, request, idx, mapping, seen_models, all_models,
                   calls, fetched, wire, upstream>>

\* middleware.rs:49-127, then the routes of main.rs:37-38
Gate(r) ==
    /\ pc[r] = "gate"
    /\ LET req == request[r].v
       IN  IF call(AppData, req) = "reject"
           THEN /\ response' = [response EXCEPT ![r] = Some(Unauthorized)]
                /\ pc' = [pc EXCEPT ![r] = "done"]
                /\ UNCHANGED invoked
           ELSE IF req.path = "/v1/models"
           THEN /\ invoked' = [invoked EXCEPT ![r] = "models_endpoint"]
                /\ pc' = [pc EXCEPT ![r] = "models_endpoint"]
                /\ UNCHANGED response
           ELSE IF req.path = "/v1/chat/completions"
           THEN /\ invoked' = [invoked EXCEPT ![r] = "chat_completions"]
                /\ pc' = [pc EXCEPT ![r] = "chat_completions"]
                /\ UNCHANGED response
           ELSE /\ invoked' = [invoked EXCEPT ![r] = "default_service"]
                /\ response' = [response EXCEPT ![r] = Some(NoRoute)]
                /\ pc' = [pc EXCEPT ![r] = "done"]
    /\ UNCHANGED <<config, wired, request, idx, mapping, seen_models, all_models,
                   calls, fetched, wire, upstream>>

\* the handler entering get_model_mapping before it looks at the model field
ChatStartResolvingFirst(r) ==
    /\ pc[r] = "chat_completions"
    /\ wired
    /\ idx' = [idx EXCEPT ![r] = 1]
    /\ mapping' = [mapping EXCEPT ![r] = <<>>]
    /\ seen_models' = [seen_models EXCEPT ![r] = {}]
    /\ pc' = [pc EXCEPT ![r] = "get_model_mapping"]
    /\ UNCHANGED <<config, wired, request, all_models, response, calls, fetched,
                   wire, upstream, invoked>>

\* the handler reusing the mapping another request in flight has resolved
ChatStartCached(r) ==
    /\ pc[r] = "chat_completions"
    /\ wired
    /\ LET model  == get_str(request[r].v.json.v, "model")
           cached == {s \in Slots \ {r} :
                         /\ invoked[s] = "chat_completions"
                         /\ pc[s] \in {"forward", "done"}
                         /\ idx[s] > Len(config.providers)}
       IN  IF ~model.some
           THEN /\ response' = [response EXCEPT ![r] = Some(MissingModelField)]
                /\ pc' = [pc EXCEPT ![r] = "done"]
                /\ UNCHANGED <<idx, mapping, seen_models>>
           ELSE IF cached # {}
           THEN /\ idx' = [idx EXCEPT ![r] = Len(config.providers) + 1]
                /\ mapping' = [mapping EXCEPT ![r] = mapping[CHOOSE s \in cached : TRUE]]
                /\ seen_models' = [seen_models EXCEPT ![r] = {}]
                /\ pc' = [pc EXCEPT ![r] = "get_model_mapping"]
                /\ UNCHANGED response
           ELSE /\ idx' = [idx EXCEPT ![r] = 1]
                /\ mapping' = [mapping EXCEPT ![r] = <<>>]
                /\ seen_models' = [seen_models EXCEPT ![r] = {}]
                /\ pc' = [pc EXCEPT ![r] = "get_model_mapping"]
                /\ UNCHANGED response
    /\ UNCHANGED <<config, wired, request, all_models, calls, fetched, wire,
                   upstream, invoked>>

\* handlers.rs:37-43: the model field, then entry to get_model_mapping
\* (config.rs:36-37)
ChatStart(r) ==
    /\ pc[r] = "chat_completions"
    /\ wired
    /\ LET model == get_str(request[r].v.json.v, "model")
       IN  IF ~model.some
           THEN /\ response' = [response EXCEPT ![r] = Some(MissingModelField)]
                /\ pc' = [pc EXCEPT ![r] = "done"]
                /\ UNCHANGED <<idx, mapping, seen_models>>
           ELSE /\ idx' = [idx EXCEPT ![r] = 1]
                /\ mapping' = [mapping EXCEPT ![r] = <<>>]
                /\ seen_models' = [seen_models EXCEPT ![r] = {}]
                /\ pc' = [pc EXCEPT ![r] = "get_model_mapping"]
                /\ UNCHANGED response
    /\ UNCHANGED <<config, wired, request, all_models, calls, fetched, wire,
                   upstream, invoked>>

\* config.rs:41-48 with the result of fetch_models_from_provider in hand
MappingIteration(r, w, models) ==
    /\ fetched' = [fetched EXCEPT ![r] = Append(@, models)]
    /\ wire' = [wire EXCEPT ![r] = Append(@, w)]
    /\ IF models.ok
       THEN LET st == InsertModels([mapping |-> mapping[r],
                                    seen_models |-> seen_models[r]],
                                   models.v, CurrentProvider(r))
            IN  /\ mapping' = [mapping EXCEPT ![r] = st.mapping]
                /\ seen_models' = [seen_models EXCEPT ![r] = st.seen_models]
                /\ idx' = [idx EXCEPT ![r] = @ + 1]
                /\ pc' = [pc EXCEPT ![r] = "get_model_mapping"]
                /\ UNCHANGED response
       ELSE /\ response' = [response EXCEPT ![r] = Some(MappingFailed(models.e))]
            /\ pc' = [pc EXCEPT ![r] = "done"]
            /\ UNCHANGED <<mapping, seen_models, idx>>

NoWire == [kind |-> "none"]

\* config.rs:40-48 for a provider with a static list (config.rs:57-60)
MappingStatic(r) ==
    /\ pc[r] = "get_model_mapping"
    /\ idx[r] <= Len(config.providers)
    /\ CurrentProvider(r).models.some
    /\ MappingIteration(r, NoWire, fetch_models_from_provider(CurrentProvider(r), NoWire))
    /\ UNCHANGED <<config, wired, request, all_models, calls, upstream, invoked>>

\* the listing request sent a second time straight away
MappingSendRepeating(r) ==
    /\ pc[r] = "get_model_mapping"
    /\ idx[r] <= Len(config.providers)
    /\ ~CurrentProvider(r).models.some
    /\ calls' = [calls EXCEPT ![r] = Append(Append(@, ListingRequest(CurrentProvider(r))),
                                            ListingRequest(CurrentProvider(r)))]
    /\ pc' = [pc EXCEPT ![r] = "fetch_models_from_provider"]
    /\ UNCHANGED <<config, wired, request, idx, mapping, seen_models, all_models,
                   response, fetched, wire, upstream, invoked>>

\* config.rs:63-73: the listing request goes out
MappingSend(r) ==
    /\ pc[r] = "get_model_mapping"
    /\ idx[r] <= Len(config.providers)
    /\ ~CurrentProvider(r).models.some
    /\ calls' = [calls EXCEPT ![r] = Append(@, ListingRequest(CurrentProvider(r)))]
    /\ pc' = [pc EXCEPT ![r] = "fetch_models_from_provider"]
    /\ UNCHANGED <<config, wired, request, idx, mapping, seen_models, all_models,
                   response, fetched, wire, upstream, invoked>>

\* config.rs:73-105, then config.rs:42-48: the listing exchange ends
MappingRecv(r) ==
    /\ pc[r] = "fetch_models_from_provider"
    /\ \E w \in ListingWire(CurrentProvider(r)) :
          MappingIteration(r, w, fetch_models_from_provider(CurrentProvider(r), w))
    /\ UNCHANGED <<config, wired, request, all_models, calls, upstream, invoked>>

\* the lookup falling back on the first provider for an unmapped model
ChatForwardDefaulting(r) ==
    /\ pc[r] = "get_model_mapping"
    /\ idx[r] > Len(config.providers)
    /\ LET json  == request[r].v.json.v
           model == get_str(json, "model").v
       IN  IF model \notin DOMAIN mapping[r] /\ config.providers = <<>>
           THEN /\ response' = [response EXCEPT ![r] = Some(ModelNotFound(model))]
                /\ pc' = [pc EXCEPT ![r] = "done"]
                /\ UNCHANGED calls
           ELSE /\ calls' = [calls EXCEPT ![r] =
                                Append(@, ForwardRequest(
                                              IF model \in DOMAIN mapping[r]
                                              THEN mapping[r][model]
                                              ELSE config.providers[1], json))]
                /\ pc' = [pc EXCEPT ![r] = "forward"]
                /\ UNCHANGED response
    /\ UNCHANGED <<config, wired, request, idx, mapping, seen_models, all_models,
                   fetched, wire, upstream, invoked>>

\* config.rs:50, handlers.rs:46-62: the lookup, and the POST going out
ChatForward(r) ==
    /\ pc[r] = "get_model_mapping"
    /\ idx[r] > Len(config.providers)
    /\ LET json  == request[r].v.json.v
           model == get_str(json, "model").v
       IN  IF model \notin DOMAIN mapping[r]
           THEN /\ response' = [response EXCEPT ![r] = Some(ModelNotFound(model))]
                /\ pc' = [pc EXCEPT ![r] = "done"]
                /\ UNCHANGED calls
           ELSE /\ calls' = [calls EXCEPT ![r] =
                                Append(@, ForwardRequest(mapping[r][model], json))]
                /\ pc' = [pc EXCEPT ![r] = "forward"]
                /\ UNCHANGED response
    /\ UNCHANGED <<config, wired, request, idx, mapping, seen_models, all_models,
                   fetched, wire, upstream, invoked>>

\* the relay unwrapping the body: a body that breaks off ends the task
\* without a response
ChatRelayUnwrapping(r) ==
    /\ pc[r] = "forward"
    /\ \E u \in UpstreamWire :
          /\ upstream' = [upstream EXCEPT ![r] = Some(u)]
          /\ IF u.kind # "error" /\ ~u.body.ok
             THEN /\ pc' = [pc EXCEPT ![r] = "panicked"]
                  /\ UNCHANGED response
             ELSE /\ response' = [response EXCEPT ![r] =
                                     Some(IF u.kind = "error" THEN ForwardFailed(u.e)
                                          ELSE Relay(u))]
                  /\ pc' = [pc EXCEPT ![r] = "done"]
    /\ UNCHANGED <<config, wired, request, idx, mapping, seen_models, all_models,
                   calls, fetched, wire, invoked>>

\* handlers.rs:62-84: the upstream exchange ends
ChatRelay(r) ==
    /\ pc[r] = "forward"
    /\ \E u \in UpstreamWire :
          /\ upstream' = [upstream EXCEPT ![r] = Some(u)]
          /\ response' = [response EXCEPT ![r] =
                             Some(IF u.kind = "error" THEN ForwardFailed(u.e)
                                  ELSE Relay(u))]
    /\ pc' = [pc EXCEPT ![r] = "done"]
    /\ UNCHANGED <<config, wired, request, idx, mapping, seen_models, all_models,
                   calls, fetched, wire, invoked>>

\* handlers.rs:10, config.rs:111-112: entry to get_all_raw_models
ModelsStart(r) ==
    /\ pc[r] = "models_endpoint"
    /\ wired
    /\ idx' = [idx EXCEPT ![r] = 1]
    /\ all_models' = [all_models EXCEPT ![r] = <<>>]
    /\ seen_models' = [seen_models EXCEPT ![r] = {}]
    /\ pc' = [pc EXCEPT ![r] = "get_all_raw_models"]
    /\ UNCHANGED <<config, wired, request, mapping, response, calls, fetched, wire,
                   upstream, invoked>>

\* config.rs:116-125 with the result of fetch_raw_models_from_provider in
\* hand; an Err leaves get_all_raw_models by `?` (handlers.rs:19-27)
RawIteration(r, w, models) ==
    /\ fetched' = [fetched EXCEPT ![r] = Append(@, models)]
    /\ wire' = [wire EXCEPT ![r] = Append(@, w)]
    /\ IF models.ok
       THEN LET st == PushModels([all_models |-> all_models[r],
                                  seen_models |-> seen_models[r]], models.v)
            IN  /\ all_models' = [all_models EXCEPT ![r] = st.all_models]
                /\ seen_models' = [seen_models EXCEPT ![r] = st.seen_models]
                /\ idx' = [idx EXCEPT ![r] = @ + 1]
                /\ pc' = [pc EXCEPT ![r] = "get_all_raw_models"]
                /\ UNCHANGED response
       ELSE /\ response' = [response EXCEPT ![r] = Some(ListingFailed(models.e))]
            /\ pc' = [pc EXCEPT ![r] = "done"]
            /\ UNCHANGED <<all_models, seen_models, idx>>

\* config.rs:115-125 for a provider with a static list (config.rs:135-148)
RawStatic(r) ==
    /\ pc[r] = "get_all_raw_models"
    /\ idx[r] <= Len(config.providers)
    /\ CurrentProvider(r).models.some
    /\ RawIteration(r, NoWire, fetch_raw_models_from_provider(CurrentProvider(r), NoWire))
    /\ UNCHANGED <<config, wired, request, mapping, calls, upstream, invoked>>

\* config.rs:151-161: the listing request goes out
RawSend(r) ==
    /\ pc[r] = "get_all_raw_models"
    /\ idx[r] <= Len(config.providers)
    /\ ~CurrentProvider(r).models.some
    /\ calls' = [calls EXCEPT ![r] = Append(@, ListingRequest(CurrentProvider(r)))]
    /\ pc' = [pc EXCEPT ![r] = "fetch_raw_models_from_provider"]
    /\ UNCHANGED <<config, wired, request, idx, mapping, seen_models, all_models,
                   response, fetched, wire, upstream, invoked>>

\* config.rs:161-191, then config.rs:117-125: the listing exchange ends
RawRecv(r) ==
    /\ pc[r] = "fetch_raw_models_from_provider"
    /\ \E w \in ListingWire(CurrentProvider(r)) :
          RawIteration(r, w, fetch_raw_models_from_provider(CurrentProvider(r), w))
    /\ UNCHANGED <<config, wired, request, mapping, calls, upstream, invoked>>

\* config.rs:128, handlers.rs:11-18
ModelsRespond(r) ==
    /\ pc[r] = "get_all_raw_models"
    /\ idx[r] > Len(config.providers)
    /\ response' = [response EXCEPT ![r] = Some(ListingOk(all_models[r]))]
    /\ pc' = [pc EXCEPT ![r] = "done"]
    /\ UNCHANGED <<config, wired, request, idx, mapping, seen_models, all_models,
                   calls, fetched, wire, upstream, invoked>>

\* handlers.rs:8, 35: the routed handler is reached but its Config argument
\* is missing, so its body never runs
DataMissing(r) ==
    /\ pc[r] \in {"chat_completions", "models_endpoint"}
    /\ ~wired
    /\ response' = [response EXCEPT ![r] = Some(AppDataMissing)]
    /\ pc' = [pc EXCEPT ![r] = "done"]
    /\ UNCHANGED <<config, wired, request, idx, mapping, seen_models, all_models,
                   calls, fetched, wire, upstream, invoked>>

\* the response is delivered; everything request-local is dropped
Complete(r) ==
    /\ pc[r] = "done"
    /\ pc' = [pc EXCEPT ![r] = Idle.pc]
    /\ request' = [request EXCEPT ![r] = Idle.request]
    /\ idx' = [idx EXCEPT ![r] = Idle.idx]
    /\ mapping' = [mapping EXCEPT ![r] = Idle.mapping]
    /\ seen_models' = [seen_models EXCEPT ![r] = Idle.seen_models]
    /\ all_models' = [all_models EXCEPT ![r] = Idle.all_models]
    /\ response' = [response EXCEPT ![r] = Idle.response]
    /\ calls' = [calls EXCEPT ![r] = Idle.calls]
    /\ fetched' = [fetched EXCEPT ![r] = Idle.fetched]
    /\ wire' = [wire EXCEPT ![r] = Idle.wire]
    /\ upstream' = [upstream EXCEPT ![r] = Idle.upstream]
    /\ invoked' = [invoked EXCEPT ![r] = Idle.invoked]
    /\ UNCHANGED <<config, wired>>

Handle(r) ==
    \/ Gate(r)
    \/ ChatStart(r)
    \/ MappingStatic(r)
    \/ MappingSend(r)
    \/ MappingRecv(r)
    \/ ChatForward(r)
    \/ ChatRelay(r)
    \/ ModelsStart(r)
    \/ RawStatic(r)
    \/ RawSend(r)
    \/ RawRecv(r)
    \/ ModelsRespond(r)
    \/ Complete(r)

----------------------------------------------------------------------------
(* Spec: every provider list, the configured key k, requests with or       *)
(* without the right credential.                                          *)

Init == InitWith(Configs({None, Some(Key)}, ProviderLists))

Next ==
    \E r \in OneAtATime :
        \/ \E req \in Requests(FewHeaders) : Receive(r, req)
        \/ Handle(r)

Spec == Init /\ [][Next]_vars

(* SpecGate: every server key and every shape of Authorization header,    *)
(* in front of one static and one live provider.                           *)

GateProviders == <<Provider(1, Some(<<"m1">>)), Provider(2, None)>>

InitGate == InitWith(Configs(ServerKeys, {GateProviders}))

NextGate ==
    \E r \in OneAtATime :
        \/ \E req \in Requests(ManyHeaders) : Receive(r, req)
        \/ Handle(r)

SpecGate == InitGate /\ [][NextGate]_vars

(* SpecConc: two requests in flight together, with the right credential,   *)
(* in front of one live and one static provider that both may list m1.     *)

ConcConfig ==
    [server_api_key |-> Some(Key),
     providers |-> <<Provider(1, None), Provider(2, Some(<<"m1">>))>>]

ConcRequests ==
    {[path |-> "/v1/chat/completions", authorization |-> Some(Bearer \o Key),
      body |-> Some(b), json |-> Some(from_slice(b))] :
        b \in {JText(<<Member("model", JStr("m1"))>>)}}
    \cup {[path |-> "/v1/models", authorization |-> Some(Bearer \o Key),
           body |-> None, json |-> None]}

InitConc == InitWith({ConcConfig})

NextConc ==
    \E r \in Slots :
        \/ \E req \in ConcRequests : Receive(r, req)
        \/ Handle(r)

SpecConc == InitConc /\ [][NextConc]_vars

(* SpecLive: one request at a time in front of ConcConfig; every step of   *)
(* the gateway is taken in the end, and so is the end of every outbound    *)
(* exchange, with a response or a failure.                                 *)

InitLive == InitWith({ConcConfig})

NextLive ==
    \E r \in OneAtATime :
        \/ \E req \in Requests(FewHeaders) : Receive(r, req)
        \/ Handle(r)

SpecLive ==
    InitLive /\ [][NextLive]_vars /\ \A r \in OneAtATime : WF_vars(Handle(r))

(* SpecWiring: the App with and without the Config registered, every shape *)
(* of Authorization header.                                                *)

InitWiring == InitApp(Configs({None, Some(Key)}, {GateProviders}), BOOLEAN)

NextWiring ==
    \E r \in OneAtATime :
        \/ \E req \in Requests(ManyHeaders) : Receive(r, req)
        \/ Handle(r)
        \/ DataMissing(r)

SpecWiring == InitWiring /\ [][NextWiring]_vars

(* SpecPure: get_model_mapping and get_all_raw_models applied to the same  *)
(* Config and the same listing response of every provider: slot 1 holds    *)
(* the mapping, slot 2 the record list.                                    *)

RECURSIVE WireVectors(_)
\* one outcome of the listing exchange per provider; a provider with a
\* static list has none
WireVectors(providers) ==
    IF providers = <<>> THEN {<<>>}
    ELSE {<<w>> \o rest :
            w \in (IF Head(providers).models.some THEN {NoWire}
                   ELSE ListingWire(Head(providers))),
            rest \in WireVectors(Tail(providers))}

InitPure ==
    /\ config \in Configs({None}, ProviderLists)
    /\ wired = TRUE
    /\ pc = [r \in Slots |-> Idle.pc]
    /\ request = [r \in Slots |-> Idle.request]
    /\ idx = [r \in Slots |-> Idle.idx]
    /\ mapping = [r \in Slots |-> Idle.mapping]
    /\ seen_models = [r \in Slots |-> Idle.seen_models]
    /\ all_models = [r \in Slots |-> Idle.all_models]
    /\ response = [r \in Slots |-> Idle.response]
    /\ calls = [r \in Slots |-> Idle.calls]
    /\ fetched = [r \in Slots |-> Idle.fetched]
    /\ \E W \in WireVectors(config.providers) : wire = [r \in Slots |-> W]
    /\ upstream = [r \in Slots |-> Idle.upstream]
    /\ invoked = [r \in Slots |-> Idle.invoked]

\* config.rs:35-51 applied to the inputs
ApplyMapping ==
    /\ pc[1] = "idle"
    /\ LET result == get_model_mapping(config, wire[1])
       IN  /\ result.ok
           /\ mapping' = [mapping EXCEPT ![1] = result.v]
    /\ pc' = [pc EXCEPT ![1] = "done"]
    /\ UNCHANGED <<config, wired, request, idx, seen_models, all_models, response,
                   calls, fetched, wire, upstream, invoked>>

\* config.rs:110-129 applied to the inputs
ApplyListing ==
    /\ pc[2] = "idle"
    /\ LET result == get_all_raw_models(config, wire[2])
       IN  /\ result.ok
           /\ all_models' = [all_models EXCEPT ![2] = result.v]
    /\ pc' = [pc EXCEPT ![2] = "done"]
    /\ UNCHANGED <<config, wired, request, idx, mapping, seen_models, response,
                   calls, fetched, wire, upstream, invoked>>

NextPure == ApplyMapping \/ ApplyListing

SpecPure == InitPure /\ [][NextPure]_vars

----------------------------------------------------------------------------
(* Vocabulary of the properties. *)

\* the slot's request is past the gate
Gated(r) == pc[r] \notin {"idle", "gate"}

Protected(r) == request[r].v.path # "/v1/models"

\* the ids a fetch result lists
Ids(result) == IF result.ok THEN Range(result.v) ELSE {}

\* the providers already consulted in the slot's resolution pass
Consulted(r) == 1..Len(fetched[r])

\* the consulted providers whose fetch returned id
Listers(r, id) == {i \in Consulted(r) : id \in Ids(fetched[r][i])}

Least(S) == CHOOSE i \in S : \A j \in S : i <= j

InChat(r) == invoked[r] = "chat_completions"

InListing(r) == invoked[r] = "models_endpoint"

\* C1: in every resolution pass the mapping's keys are exactly the ids some
\* consulted provider's list holds, and each key is mapped to the consulted
\* provider of lowest configured index that lists it; as providers are
\* consulted in order, an entry once made is never replaced
C1_EarliestListerWins ==
    \A r \in Slots : InChat(r) =>
        /\ DOMAIN mapping[r] = {id \in ModelIds : Listers(r, id) # {}}
        /\ \A id \in DOMAIN mapping[r] :
              mapping[r][id] = config.providers[Least(Listers(r, id))]

C1_Witness ==
    \E r \in Slots :
        /\ InChat(r)
        /\ Len(fetched[r]) = 2
        /\ Listers(r, "m1") = {1, 2}
        /\ Listers(r, "m2") = {2}
        /\ mapping[r]["m1"] = config.providers[1]
        /\ mapping[r]["m2"] = config.providers[2]

\* the gate passed the slot's request to the inner service
Passed(r) == Gated(r) /\ invoked[r] # "none"

\* the type member of a gateway error body {error: {message, type}}
ErrorType(body) ==
    IF body.fmt = "json" /\ get(body.json, "error").some
    THEN get_str(get(body.json, "error").v, "type")
    ELSE None

\* the message member of a gateway error body {error: {message, type}}
ErrorMessage(body) ==
    IF body.fmt = "json" /\ get(body.json, "error").some
    THEN get_str(get(body.json, "error").v, "message")
    ELSE None

\* C2 (as claimed): with server_api_key unset, every protected request is
\* passed to the inner handler whatever its Authorization header is, and
\* the gate never answers 401
C2_UnsetKeyPassesEveryHeader ==
    \A r \in Slots :
        (Gated(r) /\ ~config.server_api_key.some /\ Protected(r)) =>
            /\ Passed(r)
            /\ response[r].some => response[r].v.status # 401

ValidText(header_value) == \A i \in DOMAIN header_value : header_value[i] # NonAscii

\* C3 (as claimed): with server_api_key set to k, a protected request is
\* passed if and only if its Authorization header is exactly "Bearer "
\* followed by k
C3_PassIffBearerKey ==
    \A r \in Slots :
        (Gated(r) /\ config.server_api_key.some /\ Protected(r)) =>
            (Passed(r) <=>
                request[r].v.authorization = Some(Bearer \o config.server_api_key.v))

\* C3 (amended): with server_api_key set to k, a protected request is passed
\* if and only if its Authorization header is valid text (visible ASCII) and
\* is exactly "Bearer " followed by k, without trimming or case folding; a
\* missing header, a header that is not valid text, one without the prefix
\* and any other key are rejected
C3_PassIffTextBearerKey ==
    \A r \in Slots :
        (Gated(r) /\ config.server_api_key.some /\ Protected(r)) =>
            (Passed(r) <=>
                /\ request[r].v.authorization = Some(Bearer \o config.server_api_key.v)
                /\ ValidText(request[r].v.authorization.v))

C3_Witness ==
    \E r \in Slots :
        /\ config.server_api_key = Some(Key)
        /\ request[r] # None /\ Protected(r)
        /\ request[r].v.authorization = Some(Bearer \o Key)
        /\ InChat(r)

\* C4: a request the gate rejects is answered 401 with the
\* authentication_error body, the inner handler is never invoked for it and
\* no outbound call (listing fetch or chat/completions POST) is issued for it
C4_RejectedNeverReachesHandler ==
    \A r \in Slots :
        (Gated(r) /\ call(AppData, request[r].v) = "reject") =>
            /\ pc[r] = "done"
            /\ response[r].some
            /\ response[r].v.status = 401
            /\ ErrorType(response[r].v.body) = Some("authentication_error")
            /\ invoked[r] = "none"
            /\ calls[r] = <<>>

C4_Witness ==
    \E r \in Slots :
        /\ pc[r] = "done"
        /\ request[r].v.path = "/v1/chat/completions"
        /\ config.server_api_key = Some(Key)
        /\ request[r].v.authorization = Some(Bearer \o <<"x">>)
        /\ response[r] = Some(Unauthorized)
        /\ invoked[r] = "none"

\* C5: a request to /v1/models is always passed to the inner handler,
\* whatever server_api_key and the Authorization header are, and is never
\* answered 401
C5_ListingNeverGated ==
    \A r \in Slots :
        (Gated(r) /\ ~Protected(r)) =>
            /\ invoked[r] = "models_endpoint"
            /\ response[r].some => response[r].v.status # 401

C5_Witness ==
    \E r \in Slots :
        /\ pc[r] = "done"
        /\ request[r].v.path = "/v1/models"
        /\ config.server_api_key = Some(Key)
        /\ request[r].v.authorization = None
        /\ invoked[r] = "models_endpoint"
        /\ response[r].v.status = 200

\* the listing exchange gave no usable list: a transport failure, a non-2xx
\* status, a body that is not JSON, or JSON without a data array
Failing(w) ==
    \/ w.kind = "error"
    \/ /\ w.kind = "response"
       /\ \/ w.status < 200 \/ w.status > 299
          \/ ~w.body.some
          \/ ~get_array(w.body.v, "data").some

\* the string ids among the elements of a listing response's data array
WireIds(w) ==
    {e.o.id.s : e \in {x \in Range(get_array(w.body.v, "data").v) :
                          x.t = "object" /\ "id" \in DOMAIN x.o /\ x.o.id.t = "string"}}

\* the ids consulted provider i lists in slot r's pass: its static list, or
\* what its listing endpoint answered
Offered(r, i) ==
    IF config.providers[i].models.some THEN Range(config.providers[i].models.v)
    ELSE IF Failing(wire[r][i]) THEN {}
    ELSE WireIds(wire[r][i])

Offering(r, id) == {i \in Consulted(r) : id \in Offered(r, i)}

ListedIds(r) == {get_str(all_models[r][k], "id").v : k \in DOMAIN all_models[r]}

\* C6: no listing fetch yields an error; a transport failure, a non-2xx
\* status, a non-JSON body and a body without a data array each give the
\* empty list; resolution and listing never end in their failure response;
\* and every id a non-failing consulted provider lists is in the result,
\* mapped to the earliest non-failing provider that lists it
C6_FetchFailuresDegradeToEmpty ==
    \A r \in Slots : (InChat(r) \/ InListing(r)) =>
        /\ \A i \in Consulted(r) : fetched[r][i].ok
        /\ \A i \in Consulted(r) :
              (~config.providers[i].models.some /\ Failing(wire[r][i]))
                  => fetched[r][i] = Ok(<<>>)
        /\ response[r].some =>
              /\ InListing(r) => response[r].v.status = 200
              /\ InChat(r) =>
                    (response[r].v.body.fmt = "text" => response[r].v.status # 500)
        /\ \A id \in ModelIds : Offering(r, id) # {} =>
              /\ InChat(r) =>
                    /\ id \in DOMAIN mapping[r]
                    /\ mapping[r][id] = config.providers[Least(Offering(r, id))]
              /\ InListing(r) => id \in ListedIds(r)

C6_Witness ==
    \E r \in Slots :
        /\ InChat(r)
        /\ Len(fetched[r]) = 2
        /\ wire[r][1] = HttpResponse(500, None)
        /\ wire[r][2].kind = "response"
        /\ Offered(r, 2) = {"m1"}
        /\ mapping[r]["m1"] = config.providers[2]
        /\ pc[r] = "forward"

\* the listing calls issued for slot r to provider p
ListingCallsTo(r, p) ==
    {k \in DOMAIN calls[r] :
        /\ calls[r][k].method = "GET"
        /\ calls[r][k].url[1] = trim_end_matches(p.base_url, "/")}

\* C7: for a provider with a static list (the empty one included) the id
\* fetch returns exactly that list, the raw fetch returns one synthesized
\* record per entry in the same order, no listing request goes to that
\* provider, and each static id no earlier provider lists is mapped to it
C7_StaticListUsedWithoutFetch ==
    \A r \in Slots : \A i \in Consulted(r) :
        LET p == config.providers[i]
        IN  p.models.some =>
              /\ InChat(r) => fetched[r][i] = Ok(p.models.v)
              /\ InListing(r) =>
                    /\ fetched[r][i].ok
                    /\ Len(fetched[r][i].v) = Len(p.models.v)
                    /\ \A k \in DOMAIN p.models.v :
                          fetched[r][i].v[k] =
                              JObj([id |-> JStr(p.models.v[k]), object |-> JStr("model"),
                                    created |-> JNull, owned_by |-> JNull])
              /\ wire[r][i] = NoWire
              /\ ListingCallsTo(r, p) = {}
              /\ InChat(r) =>
                    \A id \in Range(p.models.v) :
                        (\A j \in 1..(i - 1) : id \notin Ids(fetched[r][j]))
                            => (id \in DOMAIN mapping[r] /\ mapping[r][id] = p)

C7_Witness ==
    \E r \in Slots :
        /\ InChat(r)
        /\ Len(fetched[r]) = 2
        /\ ~config.providers[1].models.some
        /\ config.providers[2].models = Some(<<"m2", "m1">>)
        /\ fetched[r][1] = Ok(<<"m1">>)
        /\ fetched[r][2] = Ok(<<"m2", "m1">>)
        /\ mapping[r]["m2"] = config.providers[2]
        /\ Len(calls[r]) = 1

\* C8: when the provider a chat-completion request was routed to returns a
\* response with status s and body bytes b, the gateway answers status s,
\* Content-Type application/json and a body that is b byte for byte
C8_UpstreamResponseRelayedVerbatim ==
    \A r \in Slots :
        (upstream[r].some /\ upstream[r].v.kind = "response" /\ upstream[r].v.body.ok) =>
            response[r] = Some([status |-> upstream[r].v.status,
                               content_type |-> "application/json",
                               body |-> [fmt |-> "bytes", bytes |-> upstream[r].v.body.v]])

C8_Witness ==
    \E r \in Slots :
        /\ upstream[r] = Some(HttpResponse(429, Ok("busy")))
        /\ response[r].v.status = 429
        /\ response[r].v.body = [fmt |-> "bytes", bytes |-> "busy"]

\* the upstream exchange of slot r broke before its response was buffered
TransportFailed(r) ==
    upstream[r].v.kind = "error"
    \/ (upstream[r].v.kind = "response" /\ ~upstream[r].v.body.ok)

\* C9 (as claimed): a transport failure of the upstream exchange at any
\* point before the whole response is buffered is answered 500 with a
\* fabricated internal_error body, and in every other outcome of a
\* forwarded request the gateway's body is the upstream's body
C9_TransportFailureAnswered500 ==
    \A r \in Slots : upstream[r].some =>
        IF TransportFailed(r)
        THEN /\ response[r].v.status = 500
             /\ ErrorType(response[r].v.body) = Some("internal_error")
             /\ ErrorMessage(response[r].v.body).some
        ELSE response[r].v.body = [fmt |-> "bytes", bytes |-> upstream[r].v.body.v]

\* C10 (as claimed): a chat-completion request past the gate whose body has
\* no string model is answered 400 with a body {error: {message, type}}
C10_MissingModelAnswered400Json ==
    \A r \in Slots :
        (InChat(r) /\ response[r].some
           /\ ~get_str(request[r].v.json.v, "model").some) =>
            /\ response[r].v.status = 400
            /\ ErrorMessage(response[r].v.body).some
            /\ ErrorType(response[r].v.body).some
\* the model field of the slot's chat-completion request
RequestedModel(r) == get_str(request[r].v.json.v, "model")

\* the slot's resolution pass has consulted every provider and is over
Resolved(r) ==
    /\ InChat(r)
    /\ RequestedModel(r).some
    /\ idx[r] > Len(config.providers)
    /\ pc[r] # "get_model_mapping"

\* the chat/completions POSTs issued for the slot's request
PostCalls(r) == {k \in DOMAIN calls[r] : calls[r][k].method = "POST"}

\* the listing GETs issued for the slot's request
GetCalls(r) == {k \in DOMAIN calls[r] : calls[r][k].method = "GET"}

\* C11: a chat-completion request past the gate whose string model is not a
\* key of the mapping resolved for it is answered 404 with a message that
\* holds the model name, and no chat/completions POST is issued for it
C11_UnmappedModelAnswered404 ==
    \A r \in Slots :
        (Resolved(r) /\ RequestedModel(r).v \notin DOMAIN mapping[r]) =>
            /\ pc[r] = "done"
            /\ response[r].some
            /\ response[r].v.status = 404
            /\ response[r].v.body.fmt = "text"
            /\ \E i \in DOMAIN response[r].v.body.text :
                  response[r].v.body.text[i] = RequestedModel(r).v
            /\ PostCalls(r) = {}
            /\ upstream[r] = None

C11_Witness ==
    \E r \in Slots :
        /\ Resolved(r)
        /\ RequestedModel(r) = Some("m2")
        /\ Len(fetched[r]) = 2
        /\ DOMAIN mapping[r] = {"m1"}
        /\ response[r].some
        /\ response[r].v.status = 404
\* C12: GET /v1/models is answered 200 with {object: "list", data: [...]}
\* for every configuration and every combination of provider outcomes; with
\* no provider, or with every provider failing, data is the empty array
C12_ListingAlwaysAnswers200 ==
    \A r \in Slots : (InListing(r) /\ response[r].some) =>
        /\ response[r].v.status = 200
        /\ response[r].v.content_type = "application/json"
        /\ response[r].v.body.fmt = "json"
        /\ get_str(response[r].v.body.json, "object") = Some("list")
        /\ get_array(response[r].v.body.json, "data").some
        /\ Len(wire[r]) = Len(config.providers)
        /\ (\A i \in DOMAIN config.providers :
               ~config.providers[i].models.some /\ Failing(wire[r][i]))
              => get_array(response[r].v.body.json, "data").v = <<>>

C12_Witness ==
    \E r \in Slots :
        /\ InListing(r)
        /\ Len(config.providers) = 2
        /\ wire[r] = <<TransportError, HttpResponse(200, None)>>
        /\ response[r] = Some(ListingOk(<<>>))
\* the records consulted provider i supplied in slot r's pass, in returned
\* order: one synthesized record per static entry, or the data array of its
\* listing response
ProviderRecords(r, i) ==
    IF config.providers[i].models.some
    THEN [k \in DOMAIN config.providers[i].models.v |->
             JObj([id |-> JStr(config.providers[i].models.v[k]),
                   object |-> JStr("model"), created |-> JNull, owned_by |-> JNull])]
    ELSE IF Failing(wire[r][i]) THEN <<>>
    ELSE get_array(wire[r][i].body.v, "data").v

RECURSIVE Discovered(_, _)
\* the records of providers 1..i in scanning order
Discovered(r, i) ==
    IF i = 0 THEN <<>> ELSE Discovered(r, i - 1) \o ProviderRecords(r, i)

HasStringId(x) == x.t = "object" /\ "id" \in DOMAIN x.o /\ x.o.id.t = "string"

\* the positions of flat holding the first record of each string id
FirstOfId(flat) ==
    {k \in DOMAIN flat :
        /\ HasStringId(flat[k])
        /\ \A j \in 1..(k - 1) :
              ~(HasStringId(flat[j]) /\ flat[j].o.id.s = flat[k].o.id.s)}

\* the n-th smallest member of a set of positions
Nth(S, n) == CHOOSE k \in S : Cardinality({j \in S : j < k}) = n - 1

\* C13: the record list of get_all_raw_models holds exactly the first record
\* discovered of each string id, unmodified and in order of discovery, when
\* providers are scanned in configured order and their records in returned
\* order; repeats of an id and records without a string id are dropped
C13_FirstRecordPerIdInDiscoveryOrder ==
    \A r \in Slots : InListing(r) =>
        LET flat == Discovered(r, Len(wire[r]))
            keep == FirstOfId(flat)
        IN  /\ Len(all_models[r]) = Cardinality(keep)
            /\ \A n \in DOMAIN all_models[r] : all_models[r][n] = flat[Nth(keep, n)]
            /\ response[r].some =>
                  get_array(response[r].v.body.json, "data") = Some(all_models[r])

C13_Witness ==
    \E r \in Slots :
        /\ InListing(r)
        /\ response[r].some
        /\ Len(wire[r]) = 2
        /\ ~config.providers[1].models.some
        /\ ProviderRecords(r, 1) = <<NoStringId, ModelRecord(config.providers[1], "m2")>>
        /\ config.providers[2].models = Some(<<"m2", "m1">>)
        /\ all_models[r] = <<ModelRecord(config.providers[1], "m2"), StaticRecord("m1")>>
\* C14: a chat-completion request causes at most one upstream POST; the POST
\* goes to the chat/completions URL of the provider the request's own mapping
\* holds for the request's model, carries a body that reads as the same JSON
\* value as the request's body, and has the header Authorization: Bearer
\* <api_key> exactly when that provider's api_key is non-empty
C14_OnePostToResolvedProvider ==
    \A r \in Slots :
        /\ Cardinality(PostCalls(r)) <= 1
        /\ \A k \in PostCalls(r) :
              /\ InChat(r)
              /\ RequestedModel(r).some
              /\ RequestedModel(r).v \in DOMAIN mapping[r]
              /\ LET provider == mapping[r][RequestedModel(r).v]
                     post     == calls[r][k]
                 IN  /\ post.url = <<trim_end_matches(provider.base_url, "/"),
                                     "/chat/completions">>
                     /\ post.authorization.some <=> provider.api_key # <<>>
                     /\ post.authorization.some =>
                           post.authorization.v = Bearer \o provider.api_key
                     /\ post.body.some
                     /\ from_slice(post.body.v) = from_slice(request[r].v.body.v)

C14_Witness ==
    \E r \in Slots : \E k \in PostCalls(r) :
        /\ pc[r] = "done"
        /\ calls[r][k].authorization = None
        /\ calls[r][k].body # request[r].v.body
        /\ calls[r][k].body = Some(JText(<<Member("model", JStr("m1")),
                                           Member("stream", JNum(1))>>))
        /\ mapping[r]["m1"].api_key = <<>>
        /\ Len(mapping[r]["m1"].base_url) > Len(calls[r][k].url[1])
\* the positions of the providers without a static list, in configured order
LiveProviders ==
    SelectSeq([i \in DOMAIN config.providers |-> i],
              LAMBDA i : ~config.providers[i].models.some)

\* the listing GETs of the slot in the order they were issued
GetsInOrder(r) == SelectSeq(calls[r], LAMBDA c : c.method = "GET")

\* the listing exchanges of the slot that have ended, with a response or a
\* failure
CompletedFetches(r) ==
    Cardinality({i \in DOMAIN wire[r] : ~config.providers[i].models.some})

\* the slot waits for a listing exchange to end
AwaitingListing(r) ==
    pc[r] \in {"fetch_models_from_provider", "fetch_raw_models_from_provider"}

\* C15: in one resolution pass the listing fetches go, one each, to the
\* providers without a static list in configured order; a fetch is issued
\* only when every earlier one has ended, so at most one is outstanding; a
\* finished pass has fetched from every such provider exactly once; and the
\* upstream POST of a chat-completion request comes after all of them ended
C15_FetchesSequentialBeforePost ==
    \A r \in Slots :
        LET gets == GetsInOrder(r)
        IN  /\ Len(gets) <= Len(LiveProviders)
            /\ \A k \in DOMAIN gets :
                  gets[k] = ListingRequest(config.providers[LiveProviders[k]])
            /\ Len(gets) = CompletedFetches(r) + (IF AwaitingListing(r) THEN 1 ELSE 0)
            /\ Len(wire[r]) = Len(config.providers) => Len(gets) = Len(LiveProviders)
            /\ \A k \in PostCalls(r) :
                  /\ Len(wire[r]) = Len(config.providers)
                  /\ CompletedFetches(r) = Len(LiveProviders)
                  /\ \A g \in GetCalls(r) : g < k

C15_Witness ==
    \E r \in Slots :
        /\ Len(LiveProviders) = 2
        /\ PostCalls(r) = {3}
        /\ GetCalls(r) = {1, 2}
        /\ calls[r][1] # calls[r][2]
        /\ Failing(wire[r][1])
        /\ pc[r] = "done"
\* what slot r's request works with is computed from the Config and the
\* outcomes of its own listing exchanges, and a request that got as far as
\* the lookup has consulted every provider itself
RequestLocal(r) ==
    /\ Len(wire[r]) <= Len(config.providers)
    /\ IF InListing(r)
       THEN all_models[r] =
                RawLoop(config.providers, wire[r], Len(wire[r])).v.all_models
       ELSE mapping[r] =
                MappingLoop(config.providers, wire[r], Len(wire[r])).v.mapping
    /\ (Resolved(r) \/ PostCalls(r) # {}) =>
          /\ Len(wire[r]) = Len(config.providers)
          /\ Len(GetsInOrder(r)) = Len(LiveProviders)
          /\ get_model_mapping(config, wire[r]) = Ok(mapping[r])
    /\ (InListing(r) /\ response[r].some) =>
          /\ Len(wire[r]) = Len(config.providers)
          /\ Len(GetsInOrder(r)) = Len(LiveProviders)
          /\ get_all_raw_models(config, wire[r]) = Ok(all_models[r])

\* C16: however concurrently handled requests interleave, the mapping or
\* record list of a request is a function of the Config and of the listing
\* responses its own fetches received, every chat-completion request with a
\* string model runs its own full resolution, and the Config never changes
C16_ResolutionIsRequestLocal ==
    /\ [](\A r \in Slots : RequestLocal(r))
    /\ [][config' = config]_vars

\* two chat-completion requests for the same model in flight together, whose
\* own listing exchanges differed and whose mappings therefore differ
C16_Witness ==
    /\ Resolved(1) /\ Resolved(2)
    /\ request[1] = request[2]
    /\ pc[1] = "forward" /\ pc[2] = "forward"
    /\ wire[1] # wire[2]
    /\ mapping[1]["m1"] = config.providers[1]
    /\ mapping[2]["m1"] = config.providers[2]
\* the slot waits for an outbound exchange to end
AwaitingOutbound(r) == AwaitingListing(r) \/ pc[r] = "forward"

\* a step that does not end slot r's outbound exchange
NoCompletion(r) == wire'[r] = wire[r] /\ upstream'[r] = upstream[r]

\* C17: when every outbound call ends in time with a response or a failure,
\* every request received gets a response, exactly one, whatever the
\* outcomes were, and the gateway goes on to serve the next request; and
\* while an outbound call has not ended its request gets no response, no
\* step of the gateway giving up on the wait
C17_EveryRequestAnsweredOnce ==
    /\ \A r \in Slots : (pc[r] = "gate") ~> (pc[r] = "done" /\ response[r].some)
    /\ \A r \in Slots : (pc[r] = "done") ~> (pc[r] = "idle")
    /\ [](\A r \in Slots :
             /\ response[r].some <=> pc[r] = "done"
             /\ AwaitingOutbound(r) => ~response[r].some)
    /\ [][\A r \in Slots :
             /\ response[r].some => (response'[r] = response[r] \/ pc'[r] = "idle")
             /\ (AwaitingOutbound(r) /\ NoCompletion(r)) =>
                   (pc'[r] = pc[r] /\ response'[r] = response[r])]_vars

\* a request answered after its listing exchange failed and the upstream
\* body broke off
C17_Witness ==
    \E r \in Slots :
        /\ pc[r] = "done"
        /\ InChat(r)
        /\ Len(wire[r]) = Len(config.providers)
        /\ wire[r][1] = TransportError
        /\ upstream[r].some
        /\ upstream[r].v.kind # "error"
        /\ ~upstream[r].v.body.ok
        /\ response[r].some
\* the credential test of the gate, read off the request: the header is
\* there, is text, starts with "Bearer " and the rest is the key the Config
\* asks for, if it asks for one
Credentialed(r) ==
    LET h == request[r].v.authorization
    IN  /\ h.some
        /\ ValidText(h.v)
        /\ Len(h.v) >= Len(Bearer)
        /\ SubSeq(h.v, 1, Len(Bearer)) = Bearer
        /\ config.server_api_key.some =>
              SubSeq(h.v, Len(Bearer) + 1, Len(h.v)) = config.server_api_key.v

\* C18: when the gate cannot reach the Config, every protected request is
\* passed to the inner handler whatever its Authorization header is and none
\* is answered 401; when the Config is registered as app data, as main does,
\* the gate reaches it and a protected request is passed only on its
\* credential, so the fail-open branch is not the one taken
C18_FailOpenOnlyWithoutConfig ==
    \A r \in Slots :
        (Gated(r) /\ Protected(r)) =>
            /\ ~wired =>
                  /\ ~AppData.some
                  /\ Passed(r)
                  /\ response[r].some => response[r].v.status # 401
            /\ wired =>
                  /\ AppData = Some(config)
                  /\ Passed(r) <=> Credentialed(r)

\* a chat-completion request without any Authorization header handed to the
\* inner handler of an App whose Config, asking for a key, is not registered
C18_Witness ==
    \E r \in Slots :
        /\ ~wired
        /\ config.server_api_key = Some(Key)
        /\ request[r].some
        /\ request[r].v.authorization = None
        /\ InChat(r)
        /\ response[r] = Some(AppDataMissing)
\* the slot holds a chat-completion request
ChatRequest(r) == request[r].some /\ request[r].v.path = "/v1/chat/completions"

\* C19: a chat-completion request is checked by the gate, then for its model
\* field, then resolved, then looked up: one that fails the gate is answered
\* 401 whether or not its body has a model; one that passes without a string
\* model is answered 400 with no outbound call issued and no provider
\* consulted; and 404 is answered only when every provider was consulted
C19_ChecksInFixedOrder ==
    \A r \in Slots :
        (ChatRequest(r) /\ Gated(r)) =>
            /\ ~Credentialed(r) =>
                  /\ response[r].some /\ response[r].v.status = 401
                  /\ invoked[r] = "none"
            /\ (Credentialed(r) /\ ~RequestedModel(r).some
                  /\ pc[r] # "chat_completions") =>
                  /\ response[r].some /\ response[r].v.status = 400
                  /\ calls[r] = <<>>
                  /\ wire[r] = <<>>
            /\ (response[r].some /\ response[r].v.status = 400) => Credentialed(r)
            /\ (response[r].some /\ response[r].v.status = 404) =>
                  /\ Credentialed(r)
                  /\ RequestedModel(r).some
                  /\ Len(wire[r]) = Len(config.providers)
                  /\ Len(GetsInOrder(r)) = Len(LiveProviders)
                  /\ PostCalls(r) = {}

\* a request with a wrong key and no model field, answered 401
C19_Witness ==
    \E r \in Slots :
        /\ ChatRequest(r)
        /\ pc[r] = "done"
        /\ config.server_api_key = Some(Key)
        /\ request[r].v.authorization = Some(Bearer \o <<"x">>)
        /\ ~RequestedModel(r).some
        /\ response[r].v.status = 401
\* the index of the first provider whose records, as slot r's exchanges
\* returned them, hold a record of string id id
FirstSource(r, id) ==
    Least({i \in DOMAIN wire[r] :
              \E k \in DOMAIN ProviderRecords(r, i) :
                  /\ HasStringId(ProviderRecords(r, i)[k])
                  /\ ProviderRecords(r, i)[k].o.id.s = id})

\* C20: for one Config and one listing response per provider, the ids of
\* the records get_all_raw_models returns are exactly the keys of the
\* mapping get_model_mapping returns, and each listed record is a record of
\* the provider the mapping routes its id to
C20_ListedIffRoutable ==
    (pc[1] = "done" /\ pc[2] = "done" /\ wire[1] = wire[2]) =>
        /\ \A k \in DOMAIN all_models[2] : HasStringId(all_models[2][k])
        /\ {all_models[2][k].o.id.s : k \in DOMAIN all_models[2]} = DOMAIN mapping[1]
        /\ \A k \in DOMAIN all_models[2] :
              LET id == all_models[2][k].o.id.s
                  i  == FirstSource(2, id)
              IN  /\ all_models[2][k] \in Range(ProviderRecords(2, i))
                  /\ mapping[1][id] = config.providers[i]

\* m2 listed and routed through the live second provider, m1 through the
\* static first one, which the second provider lists as well
C20_Witness ==
    /\ pc[1] = "done" /\ pc[2] = "done"
    /\ Len(config.providers) = 2
    /\ config.providers[1].models = Some(<<"m1">>)
    /\ ~config.providers[2].models.some
    /\ DOMAIN mapping[1] = {"m1", "m2"}
    /\ mapping[1]["m1"] = config.providers[1]
    /\ mapping[1]["m2"] = config.providers[2]
    /\ all_models[2] = <<StaticRecord("m1"), ModelRecord(config.providers[2], "m2")>>
    /\ Len(ProviderRecords(2, 2)) = 2

====
